---- MODULE Spec2Model ----
(***************************************************************************)
(* A model of warpkit/utilities.py: the orientation canonicalisation, the  *)
(* field map <-> displacement map conversion, the embedding of a           *)
(* displacement map into a displacement field, the conversion of a field   *)
(* between the itk/fsl/ants/afni conventions, the displacement map and     *)
(* displacement field inversion and the resampling around the native       *)
(* kernels, and of the rank check of scripts/warpkit_unwrap.py.            *)
(*                                                                         *)
(* Arrays are modelled the way numpy holds them: a buffer in the heap and  *)
(* views (shape + index map) onto it, so that an in-place write through a  *)
(* view is seen by every other view of the same buffer.                    *)
(***************************************************************************)
EXTENDS Integers, Sequences, FiniteSets, TLC

VARIABLES
    pc,       \* position of the calling script
    heap,     \* the array buffers: a sequence of functions index -> value
    img,      \* the input image object (dataobj, fdata cache, affine, header)
    img0,     \* what a reader of the input image saw before the call
    args,     \* the arguments of the call
    out,      \* the image the call returned (NoImg when it raised)
    back,     \* the image the call on the returned image returned
    err,      \* the exception the last call ended in ("none" when it returned)
    inv       \* the locals of the running call

vars == <<pc, heap, img, img0, args, out, back, err, inv>>

\* ------------------------------------------------------------------ bounds

\* largest size of a spatial axis of an input image
MaxDim == 2
\* largest number of frames (4th axis) of an input image
MaxFrames == 2
\* largest size of the trailing (component) axis of an input field
MaxTrail == 4
\* number of voxels of a field map
MaxVox == 2

\* ------------------------------------------------------------ numpy arrays

NoImg == [none |-> TRUE]
NoArr == [none |-> TRUE]

Abs(x) == IF x < 0 THEN -x ELSE x

RECURSIVE Indices(_)
\* all index tuples of an array of the given shape (0-based entries)
Indices(shape) ==
    IF Len(shape) = 0 THEN {<<>>}
    ELSE {Append(i, x) : i \in Indices(SubSeq(shape, 1, Len(shape) - 1)),
                         x \in 0..(shape[Len(shape)] - 1)}

RECURSIVE Lin(_, _)
\* position of index i in C order
Lin(shape, i) ==
    IF Len(shape) = 0 THEN 0
    ELSE Lin(SubSeq(shape, 1, Len(shape) - 1), SubSeq(i, 1, Len(i) - 1)) * shape[Len(shape)]
         + i[Len(i)]

\* a fresh buffer whose entries are all different and none is zero
Labelled(shape) == [i \in Indices(shape) |-> Lin(shape, i) + 1]

\* np.zeros(shape)
Zeros(shape) == [i \in Indices(shape) |-> 0]

\* the array object that owns buffer b of the given shape
Owner(b, shape) == [buf |-> b, shape |-> shape, at |-> [i \in Indices(shape) |-> i]]

\* the values seen through a view
Read(h, a) == [i \in Indices(a.shape) |-> h[a.buf][a.at[i]]]

\* what == compares: shape and values
Content(h, a) == [shape |-> a.shape, val |-> Read(h, a)]

\* np.flip(a, axis=ax): a view, ax is 1-based here
Flip(a, ax) ==
    [a EXCEPT !.at = [i \in Indices(a.shape) |->
                        a.at[[i EXCEPT ![ax] = a.shape[ax] - 1 - i[ax]]]]]

\* a.transpose(perm): axis k of the result is axis perm[k] of a (1-based), a view
Transpose(a, perm) ==
    LET newshape == [k \in 1..Len(a.shape) |-> a.shape[perm[k]]]
        old(i) == [m \in 1..Len(a.shape) |->
                     i[CHOOSE k \in 1..Len(a.shape) : perm[k] = m]]
    IN  [buf |-> a.buf, shape |-> newshape,
         at |-> [i \in Indices(newshape) |-> a.at[old(i)]]]

RECURSIVE KeptAxes(_, _)
\* the axes that squeeze keeps, in order, from axis k on
KeptAxes(shape, k) ==
    IF k > Len(shape) THEN <<>>
    ELSE IF shape[k] = 1 THEN KeptAxes(shape, k + 1)
    ELSE <<k>> \o KeptAxes(shape, k + 1)

\* a.squeeze(): every axis of size 1 is dropped, a view
squeeze(a) ==
    LET kept == KeptAxes(a.shape, 1)
        newshape == [k \in 1..Len(kept) |-> a.shape[kept[k]]]
        old(i) == [m \in 1..Len(a.shape) |->
                     IF a.shape[m] = 1 THEN 0
                     ELSE i[CHOOSE k \in 1..Len(kept) : kept[k] = m]]
    IN  [buf |-> a.buf, shape |-> newshape,
         at |-> [i \in Indices(newshape) |-> a.at[old(i)]]]

\* a[..., np.newaxis, :]: an axis of size 1 before the last axis, a view
NewAxisBeforeLast(a) ==
    LET n == Len(a.shape)
        newshape == SubSeq(a.shape, 1, n - 1) \o <<1, a.shape[n]>>
        old(i) == SubSeq(i, 1, n - 1) \o <<i[n + 1]>>
    IN  [buf |-> a.buf, shape |-> newshape,
         at |-> [i \in Indices(newshape) |-> a.at[old(i)]]]

\* a[..., c] = a[..., c] * f, written in place through the view (c is 0-based)
ScaleComponent(h, a, c, f) ==
    LET n == Len(a.shape)
        hit == {a.at[i] : i \in {j \in Indices(a.shape) : j[n] = c}}
    IN  [h EXCEPT ![a.buf] = [p \in DOMAIN h[a.buf] |->
                                IF p \in hit THEN h[a.buf][p] * f ELSE h[a.buf][p]]]

\* ------------------------------------------------------------- 4x4 affines

Dot4(A, B) ==
    [r \in 1..4 |-> [c \in 1..4 |->
        A[r][1] * B[1][c] + A[r][2] * B[2][c] + A[r][3] * B[3][c] + A[r][4] * B[4][c]]]

\* the affine of a grid whose voxel axis c runs along physical axis perm[c]
\* (1-based) with direction flip[c] and voxel size zoom[c], origin at trans
MakeAffine(perm, flip, zoom, trans) ==
    [r \in 1..4 |-> [c \in 1..4 |->
        IF r = 4 THEN (IF c = 4 THEN 1 ELSE 0)
        ELSE IF c = 4 THEN trans[r]
        ELSE IF perm[c] = r THEN flip[c] * zoom[c] ELSE 0]]

\* ---------------------------------------------------- nibabel orientations

\* nib.orientations.io_orientation(affine): for each voxel axis the physical
\* axis (0-based) it runs closest to, and the direction
io_orientation(affine) ==
    [c \in 1..3 |->
        LET best == CHOOSE r \in 1..3 :
                       /\ \A q \in 1..3 : Abs(affine[r][c]) >= Abs(affine[q][c])
                       /\ \A q \in 1..(r - 1) : Abs(affine[q][c]) < Abs(affine[r][c])
        IN  <<best - 1, IF affine[best][c] < 0 THEN -1 ELSE 1>>]

\* nib.orientations.axcodes2ornt("RAS")
ras_orientation == <<(<<0, 1>>), (<<1, 1>>), (<<2, 1>>)>>

\* nib.orientations.ornt_transform(start_ornt, end_ornt)
ornt_transform(start_ornt, end_ornt) ==
    [s \in 1..3 |->
        LET e == CHOOSE k \in 1..3 : end_ornt[k][1] = start_ornt[s][1]
        IN  <<e - 1, IF start_ornt[s][2] = end_ornt[e][2] THEN 1 ELSE -1>>]

\* get_ras_orient_transform with the arguments of the second ornt_transform
\* in the order of the first
get_ras_orient_transform_same_order(affine) ==
    LET img_orientation == io_orientation(affine)
    IN  <<ornt_transform(img_orientation, ras_orientation),
          ornt_transform(img_orientation, ras_orientation)>>

\* warpkit.utilities.get_ras_orient_transform: <<to_canonical, from_canonical>>
get_ras_orient_transform(affine) ==
    LET img_orientation == io_orientation(affine)
    IN  <<ornt_transform(img_orientation, ras_orientation),
          ornt_transform(ras_orientation, img_orientation)>>

RECURSIVE FlipAxes(_, _, _)
\* the flips of apply_orientation, axis by axis
FlipAxes(a, ornt, k) ==
    IF k > 3 THEN a
    ELSE FlipAxes(IF ornt[k][2] = -1 THEN Flip(a, k) ELSE a, ornt, k + 1)

\* nib.orientations.apply_orientation(arr, ornt): flips, then the transpose
\* that puts input axis k at position ornt[k][0]; the axes after the first
\* three stay where they are. The result is a view.
apply_orientation(a, ornt) ==
    LET flipped == FlipAxes(a, ornt, 1)
        perm == [k \in 1..Len(a.shape) |->
                   IF k > 3 THEN k ELSE CHOOSE m \in 1..3 : ornt[m][1] = k - 1]
    IN  Transpose(flipped, perm)

\* nib.orientations.inv_ornt_aff(ornt, shape)
inv_ornt_aff(ornt, shape) ==
    LET undo_reorder == [r \in 1..4 |-> [c \in 1..4 |->
                           IF r = 4 THEN (IF c = 4 THEN 1 ELSE 0)
                           ELSE IF c = ornt[r][1] + 1 THEN 1 ELSE 0]]
        undo_flip == [r \in 1..4 |-> [c \in 1..4 |->
                           IF r = 4 THEN (IF c = 4 THEN 1 ELSE 0)
                           ELSE IF c = r THEN ornt[r][2]
                           ELSE IF c = 4 THEN (IF ornt[r][2] = -1 THEN shape[r] - 1 ELSE 0)
                           ELSE 0]]
    IN  Dot4(undo_flip, undo_reorder)

\* --------------------------------------------------------- nibabel images

\* an image object: the array it was built on, the float array get_fdata
\* cached (NoArr before the first get_fdata), whether the array it was built
\* on is a float64 array in memory, the affine and the header's intent
Image(dataobj, f64, affine, intent) ==
    [dataobj |-> dataobj, fcache |-> NoArr, f64 |-> f64, affine |-> affine, intent |-> intent]

\* Nifti1Image.get_fdata(): [h, im, arr]: the cached array when there is one;
\* else the array itself when it is float64, a float64 copy when it is not;
\* the array is cached in the image
get_fdata(h, im) ==
    IF im.fcache # NoArr THEN [h |-> h, im |-> im, arr |-> im.fcache]
    ELSE IF im.f64 THEN [h |-> h, im |-> [im EXCEPT !.fcache = im.dataobj], arr |-> im.dataobj]
    ELSE LET copy == Owner(Len(h) + 1, im.dataobj.shape)
         IN  [h |-> Append(h, Read(h, im.dataobj)),
              im |-> [im EXCEPT !.fcache = copy],
              arr |-> copy]

\* what a reader of the image sees: its samples (get_fdata), affine and intent
Seen(h, im) ==
    [data |-> Content(h, IF im.fcache # NoArr THEN im.fcache ELSE im.dataobj),
     affine |-> im.affine,
     intent |-> im.intent]

identity_ornt == <<(<<0, 1>>), (<<1, 1>>), (<<2, 1>>)>>

\* Nifti1Image.as_reoriented(ornt): [self, im]: the image itself when ornt
\* is the identity; else a new image on the re-oriented view of the array,
\* with the affine composed with inv_ornt_aff and a copy of the header
as_reoriented(im, ornt) ==
    IF ornt = identity_ornt THEN [self |-> TRUE, im |-> im, err |-> "none"]
    ELSE IF Len(im.dataobj.shape) < 3
    THEN [self |-> FALSE, im |-> NoImg, err |-> "OrientationError"]
    ELSE [self |-> FALSE,
          im |-> Image(apply_orientation(im.dataobj, ornt), im.f64,
                       Dot4(im.affine, inv_ornt_aff(ornt, im.dataobj.shape)), im.intent),
          err |-> "none"]

\* Nifti1Image(data, affine, header): the array is kept as it is (no copy),
\* the affine and the header are copied
Nifti1Image(data, affine, intent) == Image(data, TRUE, affine, intent)

\* ------------------------------------------------------------ float values

\* a sample value: the rational n/d in lowest terms with d > 0; a division
\* by zero gives what numpy gives, inf (n # 0, kept as 1/0 whatever its sign)
\* or nan (0/0)
RECURSIVE GCD(_, _)
GCD(a, b) == IF b = 0 THEN a ELSE GCD(b, a % b)

Rat(n, d) ==
    IF d = 0 THEN [n |-> IF n = 0 THEN 0 ELSE 1, d |-> 0]
    ELSE LET g == GCD(Abs(n), Abs(d))
             s == IF d < 0 THEN -1 ELSE 1
         IN  [n |-> s * (n \div g), d |-> s * (d \div g)]

IsFinite(x) == x.d # 0

\* x * y
Times(x, y) == Rat(x.n * y.n, x.d * y.d)

\* x / y
Over(x, y) == Rat(x.n * y.d, x.d * y.n)

\* ------------------------------------------------------ warpkit.utilities

\* AXIS_MAP: axis name -> axis code
AXIS_MAP ==
    [n \in {"x", "y", "z", "x-", "y-", "z-", "i", "j", "k", "i-", "j-", "k-"} |->
        IF n \in {"x", "x-", "i", "i-"} THEN 0
        ELSE IF n \in {"y", "y-", "j", "j-"} THEN 1
        ELSE 2]

\* WARP_ITK_FLIPS: convention -> sign of each component against itk
WARP_ITK_FLIPS ==
    [t \in {"itk", "fsl", "ants", "afni"} |->
        IF t = "itk" THEN <<1, 1, 1>>
        ELSE IF t = "fsl" THEN <<-1, 1, 1>>
        ELSE <<-1, -1, 1>>]

\* ------------------------------------------------- affine decomposition

Det3(A) ==
    A[1][1] * (A[2][2] * A[3][3] - A[2][3] * A[3][2])
    - A[1][2] * (A[2][1] * A[3][3] - A[2][3] * A[3][1])
    + A[1][3] * (A[2][1] * A[3][2] - A[2][2] * A[3][1])

\* transforms3d.affines.decompose44(affine) of an axis-aligned affine:
\* translations, rotations, zooms (the norm of each column, the first one
\* negated when the determinant is negative)
decompose44(affine) ==
    LET norm(c) == Abs(affine[1][c]) + Abs(affine[2][c]) + Abs(affine[3][c])
        zooms == [c \in 1..3 |-> IF c = 1 /\ Det3(affine) < 0 THEN -norm(c) ELSE norm(c)]
    IN  [translations |-> <<affine[1][4], affine[2][4], affine[3][4]>>,
         rotations |-> [r \in 1..3 |-> [c \in 1..3 |-> affine[r][c] \div zooms[c]]],
         zooms |-> zooms]

\* data[..., i]: the content of frame i (0-based) along the last axis
Frame(content, i) ==
    LET shape == SubSeq(content.shape, 1, Len(content.shape) - 1)
    IN  [shape |-> shape, val |-> [j \in Indices(shape) |-> content.val[Append(j, i)]]]

\* store_frame writing every result to frame 0: new_data[..., 0] = result
store_frame_first(h, new_data, i, result) ==
    [h EXCEPT ![new_data.buf] =
        [p \in DOMAIN h[new_data.buf] |->
            IF \E j \in Indices(new_data.shape) :
                   new_data.at[j] = p /\ j[Len(new_data.shape)] = 0
            THEN result.val[SubSeq(CHOOSE j \in Indices(new_data.shape) : new_data.at[j] = p,
                                   1, Len(new_data.shape) - 1)]
            ELSE h[new_data.buf][p]]]

\* new_data[..., i] = result, written in place
store_frame(h, new_data, i, result) ==
    [h EXCEPT ![new_data.buf] =
        [p \in DOMAIN h[new_data.buf] |->
            IF \E j \in Indices(new_data.shape) :
                   new_data.at[j] = p /\ j[Len(new_data.shape)] = i
            THEN result.val[SubSeq(CHOOSE j \in Indices(new_data.shape) : new_data.at[j] = p,
                                   1, Len(new_data.shape) - 1)]
            ELSE h[new_data.buf][p]]]

\* what the native kernel invert_displacement_map returns for a frame: an
\* array of the shape of the frame; which one is the kernel's business
KernelResults(frame) ==
    {[shape |-> frame.shape, val |-> [j \in DOMAIN frame.val |-> g * frame.val[j]]] :
        g \in {-1, 2}}

\* what the log of kernel calls holds for a call in which the kernel raised
Raised == [raised |-> TRUE]

\* "-" in phase_encoding_direction
HasMinus(direction) == direction \in {"x-", "y-", "z-", "i-", "j-", "k-"}

\* signed_voxel_size without the flip for the x and y axes
signed_voxel_size_no_lps(zooms, phase_encoding_direction) ==
    LET axis_code == AXIS_MAP[phase_encoding_direction]
        voxel_size == zooms[axis_code + 1]
    IN  IF HasMinus(phase_encoding_direction)
        THEN Times(voxel_size, Rat(-1, 1)) ELSE voxel_size

\* the signed voxel size both conversions compute from the header zooms
signed_voxel_size(zooms, phase_encoding_direction) ==
    LET axis_code == AXIS_MAP[phase_encoding_direction]
        voxel_size == zooms[axis_code + 1]
        polar == IF HasMinus(phase_encoding_direction)
                 THEN Times(voxel_size, Rat(-1, 1)) ELSE voxel_size
    IN  IF axis_code = 0 \/ axis_code = 1 THEN Times(polar, Rat(-1, 1)) ELSE polar

\* field_maps_to_displacement_maps(field_maps, total_readout_time,
\* phase_encoding_direction): [out, err]
field_maps_to_displacement_maps(field_maps, total_readout_time, phase_encoding_direction) ==
    IF phase_encoding_direction \notin DOMAIN AXIS_MAP
    THEN [out |-> NoImg, err |-> "KeyError"]
    ELSE LET voxel_size == signed_voxel_size(field_maps.zooms, phase_encoding_direction)
             new_data == [k \in DOMAIN field_maps.data |->
                            Times(Times(field_maps.data[k], total_readout_time), voxel_size)]
         IN  [out |-> [field_maps EXCEPT !.data = new_data], err |-> "none"]

\* displacement_maps_to_field_maps dividing by the readout time alone:
\* data / total_readout_time * voxel_size
displacement_maps_to_field_maps_unbracketed(displacement_maps, total_readout_time, phase_encoding_direction, flip_sign) ==
    IF phase_encoding_direction \notin DOMAIN AXIS_MAP
    THEN [out |-> NoImg, err |-> "KeyError"]
    ELSE LET voxel_size == signed_voxel_size(displacement_maps.zooms, phase_encoding_direction)
             new_data == [k \in DOMAIN displacement_maps.data |->
                            Times(Over(displacement_maps.data[k], total_readout_time),
                                  voxel_size)]
             flipped == IF flip_sign
                        THEN [k \in DOMAIN new_data |-> Times(new_data[k], Rat(-1, 1))]
                        ELSE new_data
         IN  [out |-> [displacement_maps EXCEPT !.data = flipped], err |-> "none"]

\* displacement_maps_to_field_maps(displacement_maps, total_readout_time,
\* phase_encoding_direction, flip_sign): [out, err]
displacement_maps_to_field_maps(displacement_maps, total_readout_time, phase_encoding_direction, flip_sign) ==
    IF phase_encoding_direction \notin DOMAIN AXIS_MAP
    THEN [out |-> NoImg, err |-> "KeyError"]
    ELSE LET voxel_size == signed_voxel_size(displacement_maps.zooms, phase_encoding_direction)
             new_data == [k \in DOMAIN displacement_maps.data |->
                            Over(displacement_maps.data[k],
                                 Times(total_readout_time, voxel_size))]
             flipped == IF flip_sign
                        THEN [k \in DOMAIN new_data |-> Times(new_data[k], Rat(-1, 1))]
                        ELSE new_data
         IN  [out |-> [displacement_maps EXCEPT !.data = flipped], err |-> "none"]

\* the shape check that opens convert_warp: the error it raises, or "none"
check_data_shape(shape) ==
    IF Len(shape) # 4
    THEN IF Len(shape) # 5
         THEN "ValueError: Input warp must be 4D or 5D."
         ELSE IF shape[4] = 1 /\ shape[Len(shape)] # 0
              THEN "ValueError: Input warp must have singleton dimension in 4th axis and size in last axis."
              ELSE "none"
    ELSE IF shape[Len(shape)] # 3
         THEN "ValueError: Warp must have size 3 in last axis."
         ELSE "none"

RECURSIVE apply_flips(_, _, _, _)
\* warp_data[..., c] = warp_data[..., c] * flip_array[c] for c = 0, 1, 2 in
\* turn, in place: [h, err]. Indexing past the last axis raises IndexError,
\* and what was written before stays written.
apply_flips(h, warp_data, flip_array, c) ==
    IF c > 2 THEN [h |-> h, err |-> "none"]
    ELSE IF Len(warp_data.shape) = 0 \/ warp_data.shape[Len(warp_data.shape)] <= c
    THEN [h |-> h, err |-> "IndexError"]
    ELSE apply_flips(ScaleComponent(h, warp_data, c, flip_array[c + 1]),
                     warp_data, flip_array, c + 1)

\* convert_warp(in_warp, in_type, out_type): [h, im, out, err] where h is the
\* heap after the call, im the input image object after the call, out the
\* image returned (NoImg when the call raised) and err the exception
convert_warp(h, in_warp, in_type, out_type) ==
    LET raise(hh, im, e) == [h |-> hh, im |-> im, out |-> NoImg, err |-> e]
        shape == in_warp.dataobj.shape
        tr == get_ras_orient_transform(in_warp.affine)
        ras == as_reoriented(in_warp, tr[1])
        fdata == get_fdata(h, ras.im)
        \* the input image after get_fdata, when in_warp_ras is in_warp itself
        in_after == IF ras.self THEN fdata.im ELSE in_warp
        warp_data == squeeze(fdata.arr)
        h1 == apply_flips(fdata.h, warp_data, WARP_ITK_FLIPS[in_type], 0)
        h2 == apply_flips(h1.h, warp_data, WARP_ITK_FLIPS[out_type], 0)
        out_data == IF out_type \in {"afni", "ants"}
                    THEN NewAxisBeforeLast(warp_data)
                    ELSE warp_data
        out_warp == as_reoriented(Nifti1Image(out_data, fdata.im.affine, fdata.im.intent),
                                  tr[2])
    IN  IF check_data_shape(shape) # "none" THEN raise(h, in_warp, check_data_shape(shape))
        ELSE IF in_type \notin DOMAIN WARP_ITK_FLIPS
             THEN raise(fdata.h, in_after, "ValueError: Input type not recognized")
        ELSE IF h1.err # "none" THEN raise(h1.h, in_after, h1.err)
        ELSE IF out_type \notin DOMAIN WARP_ITK_FLIPS
             THEN raise(h1.h, in_after, "ValueError: Output type not recognized")
        ELSE IF h2.err # "none" THEN raise(h2.h, in_after, h2.err)
        ELSE IF out_warp.err # "none" THEN raise(h2.h, in_after, out_warp.err)
        ELSE [h |-> h2.h, im |-> in_after,
              out |-> [out_warp.im EXCEPT !.intent = "vector"],
              err |-> "none"]

\* displacement_map_to_field(displacement_map, axis, format): [h, im, out, err]
displacement_map_to_field(h, displacement_map, axis, format) ==
    LET fdata == get_fdata(h, displacement_map)
        data == fdata.arr
        new_shape == data.shape \o <<3>>
        \* new_data = np.zeros((*data.shape, 3)); new_data[..., axis_code] = data
        new_buf == [i \in Indices(new_shape) |->
                      IF i[Len(new_shape)] = AXIS_MAP[axis]
                      THEN Read(fdata.h, data)[SubSeq(i, 1, Len(data.shape))]
                      ELSE 0]
        h1 == Append(fdata.h, new_buf)
        new_data == Owner(Len(h1), new_shape)
        \* header.set_intent("vector") on the header of the input image
        in_after == [fdata.im EXCEPT !.intent = "vector"]
        warp == Nifti1Image(new_data, in_after.affine, in_after.intent)
        res == convert_warp(h1, warp, "itk", format)
    IN  IF axis \notin DOMAIN AXIS_MAP
        THEN [h |-> h, im |-> displacement_map, out |-> NoImg, err |-> "KeyError"]
        ELSE [h |-> res.h, im |-> in_after, out |-> res.out, err |-> res.err]

\* ------------------------------------------------------------ input images

Perms3 == {p \in [1..3 -> 1..3] : \A a, b \in 1..3 : a # b => p[a] # p[b]}
Signs3 == [1..3 -> {-1, 1}]

\* the 48 orientations: which physical axis each voxel axis runs along, and
\* in which direction
Orientations == {<<p, f>> : p \in Perms3, f \in Signs3}

SpatialShapes == [1..3 -> 1..MaxDim]

\* the orientations of the fields and maps that are converted: the axes in
\* order, with two swapped and rotated, each unflipped (RAS among them) and
\* with the first and last axis flipped
WarpOrientations ==
    {<<p, f>> : p \in {<<1, 2, 3>>, <<2, 1, 3>>, <<2, 3, 1>>},
                f \in {<<1, 1, 1>>, <<-1, 1, -1>>}}

\* the affine of an image in orientation o with voxel sizes 1, 2, 3 mm
AffineOf(o) == MakeAffine(o[1], o[2], <<1, 2, 3>>, <<-4, 5, 0>>)

Null == [none |-> TRUE]

\* ------------------------------------------- orientation round trip (4.1)

\* the script builds an image in some orientation: 3D, or 4D with frames
OrientInit ==
    /\ pc = "orient"
    /\ \E s \in SpatialShapes, n \in 0..MaxFrames, o \in Orientations, f \in BOOLEAN :
         LET shape == IF n = 0 THEN s ELSE s \o <<n>>
         IN  /\ heap = <<Labelled(shape)>>
             /\ img = Image(Owner(1, shape), f, AffineOf(o), "none")
    /\ img0 = Seen(heap, img)
    /\ args = Null /\ out = NoImg /\ back = NoImg /\ err = "none"
    /\ inv = Null

\* to_canonical, from_canonical = get_ras_orient_transform(img)
OrientGetTransform ==
    /\ pc = "orient"
    /\ pc' = "transforms"
    /\ args' = get_ras_orient_transform(img.affine)
    /\ UNCHANGED <<heap, img, img0, out, back, err, inv>>

\* ras = img.as_reoriented(to_canonical)
OrientForward ==
    /\ pc = "transforms"
    /\ pc' = "ras"
    /\ out' = as_reoriented(img, args[1]).im
    /\ UNCHANGED <<heap, img, img0, args, back, err, inv>>

\* back = ras.as_reoriented(from_canonical)
OrientInverse ==
    /\ pc = "ras"
    /\ pc' = "back"
    /\ back' = as_reoriented(out, args[2]).im
    /\ UNCHANGED <<heap, img, img0, args, out, err, inv>>

OrientNext == OrientGetTransform \/ OrientForward \/ OrientInverse

OrientSpec == OrientInit /\ [][OrientNext]_vars

\* C2: for each of the 48 orientations, re-orienting with the forward
\* transform of get_ras_orient_transform and then with the inverse transform
\* gives an image with the array (shape and samples) and the affine of the
\* original, and the image in between is in RAS orientation.
OrientRoundTrip ==
    /\ pc \in {"ras", "back"} => io_orientation(out.affine) = ras_orientation
    /\ pc = "back" =>
          /\ Content(heap, back.dataobj) = img0.data
          /\ back.affine = img0.affine

\* a non-trivial orientation (axes permuted and flipped) went there and back
OrientRoundTripWitness ==
    /\ pc = "back"
    /\ out.affine # img0.affine
    /\ Content(heap, out.dataobj) # img0.data
    /\ \E k \in 1..3 : args[1][k][2] = -1
    /\ \E k \in 1..3 : args[1][k][1] # k - 1
    /\ img0.data.shape[1] # img0.data.shape[2]

\* --------------------------- convention conversion and embedding (4.4, 4.5)

Conventions == {"itk", "fsl", "ants", "afni"}

\* the convention names a caller passes: the four known ones and a wrong one
TypeNames == Conventions \cup {"spm"}

\* the axis names a caller passes: the twelve known ones and a wrong one
AxisNames == DOMAIN AXIS_MAP \cup {"q"}

\* the axes that follow the three spatial ones in the images the script
\* passes: none (a volume), one (frames, or the components of a 4D field),
\* two (the 4th axis and the components of a 5D field)
TrailingAxes ==
    {<<>>}
    \cup {<<t>> : t \in 1..MaxTrail}
    \cup {<<n, t>> : n \in 1..MaxFrames, t \in 1..MaxTrail}

\* the script builds an image: spatial axes of size MaxDim down to 1
WarpInit ==
    /\ pc = "warp"
    /\ \E rest \in TrailingAxes, d \in [1..3 -> 0..(MaxDim - 1)],
          o \in WarpOrientations, f \in BOOLEAN :
         LET shape == <<MaxDim - d[1], MaxDim - d[2], MaxDim - d[3]>> \o rest
         IN  /\ heap = <<Labelled(shape)>>
             /\ img = Image(Owner(1, shape), f, AffineOf(o), "none")
    /\ img0 = Seen(heap, img)
    /\ args = Null /\ out = NoImg /\ back = NoImg /\ err = "none"
    /\ inv = Null

\* out = convert_warp(img, in_type, out_type)
CallConvertWarp ==
    /\ pc = "warp"
    /\ \E in_type \in TypeNames, out_type \in TypeNames :
         \E r \in {convert_warp(heap, img, in_type, out_type)} :
             /\ args' = [op |-> "convert_warp", in_type |-> in_type, out_type |-> out_type]
             /\ heap' = r.h
             /\ img' = r.im
             /\ out' = r.out
             /\ err' = r.err
    /\ pc' = "converted"
    /\ UNCHANGED <<img0, back, inv>>

\* back = convert_warp(out, out_type, in_type), on the image the first call
\* returned
CallConvertBack ==
    /\ pc = "converted"
    /\ err = "none"
    /\ \E r \in {convert_warp(heap, out, args.out_type, args.in_type)} :
           /\ heap' = r.h
           /\ out' = r.im
           /\ back' = r.out
           /\ err' = r.err
    /\ pc' = "roundtrip"
    /\ UNCHANGED <<img, img0, args, inv>>

\* out = displacement_map_to_field(img, axis, format), img a displacement
\* map: a volume, or a series of up to MaxFrames frames
CallMapToField ==
    /\ pc = "warp"
    /\ Len(img.dataobj.shape) \in {3, 4}
    /\ Len(img.dataobj.shape) = 4 => img.dataobj.shape[4] <= MaxFrames
    /\ \E axis \in AxisNames, format \in Conventions :
         \E r \in {displacement_map_to_field(heap, img, axis, format)} :
             /\ args' = [op |-> "displacement_map_to_field", axis |-> axis, format |-> format]
             /\ heap' = r.h
             /\ img' = r.im
             /\ out' = r.out
             /\ err' = r.err
    /\ pc' = "embedded"
    /\ UNCHANGED <<img0, back, inv>>

WarpNext == CallConvertWarp \/ CallConvertBack \/ CallMapToField

WarpSpec == WarpInit /\ [][WarpNext]_vars

\* the errors of the shape check of convert_warp
ShapeErrors ==
    {"ValueError: Input warp must be 4D or 5D.",
     "ValueError: Input warp must have singleton dimension in 4th axis and size in last axis.",
     "ValueError: Warp must have size 3 in last axis."}

\* a field in the shape of convention t: 4D with trailing size 3 for itk and
\* fsl, 5D with a singleton 4th axis and trailing size 3 for ants and afni
ValidFieldShape(t, shape) ==
    IF t \in {"itk", "fsl"} THEN Len(shape) = 4 /\ shape[4] = 3
    ELSE Len(shape) = 5 /\ shape[4] = 1 /\ shape[5] = 3

\* the call was convert_warp on a valid field of convention in_type, with
\* two known convention names
ValidConvertCall ==
    /\ args # Null
    /\ args.op = "convert_warp"
    /\ args.in_type \in Conventions
    /\ args.out_type \in Conventions
    /\ ValidFieldShape(args.in_type, img0.data.shape)

\* C1: for every pair (A, B) of conventions and every valid field w of
\* convention A, convert_warp(w, A, B) and then convert_warp(., B, A) both
\* return, and the second returns the shape and the values of w.
ConvertRoundTrip ==
    ValidConvertCall =>
        /\ pc = "converted" => err = "none"
        /\ pc = "roundtrip" => /\ err = "none"
                               /\ Seen(heap, back).data = img0.data

\* C4: convert_warp ends in a shape error, returning nothing, for every 4D
\* and every 5D input whose trailing axis is not of size 3, and not in a
\* shape error for a 5D input with singleton 4th axis and trailing size 3.
ConvertShapeErrors ==
    (pc = "converted" /\ args.in_type \in Conventions /\ args.out_type \in Conventions) =>
        LET shape == img0.data.shape
        IN  /\ (Len(shape) \in {4, 5} /\ shape[Len(shape)] # 3)
                    => (err \in ShapeErrors /\ out = NoImg)
            /\ (Len(shape) = 5 /\ shape[4] = 1 /\ shape[5] = 3)
                    => err \notin ShapeErrors

\* C6: after convert_warp or displacement_map_to_field, returned or raised,
\* the input image has the samples, the affine and the intent it had before.
InputUnchanged ==
    pc \in {"converted", "embedded"} => Seen(heap, img) = img0

\* the field convert_warp is to return for input content d: component c of
\* every voxel times sign_A[c] * sign_B[c], the spatial axes kept, 4D for
\* itk and fsl, 5D with a singleton 4th axis for ants and afni
ExpectedConverted(d, A, B) ==
    LET spatial == SubSeq(d.shape, 1, 3)
        shape == IF B \in {"ants", "afni"} THEN spatial \o <<1, 3>> ELSE spatial \o <<3>>
        c(i) == i[Len(i)]
        src(i) == IF Len(d.shape) = 5 THEN SubSeq(i, 1, 3) \o <<0, c(i)>>
                  ELSE SubSeq(i, 1, 3) \o <<c(i)>>
    IN  [shape |-> shape,
         val |-> [i \in Indices(shape) |->
                    d.val[src(i)] * WARP_ITK_FLIPS[A][c(i) + 1] * WARP_ITK_FLIPS[B][c(i) + 1]]]

\* C8: for every valid field and every pair (A, B), convert_warp returns the
\* field with component c multiplied by sign_A[c] * sign_B[c], the spatial
\* axes of the input (also of size 1) and the shape of convention B.
ConvertValues ==
    (pc = "converted" /\ ValidConvertCall) =>
        /\ err = "none"
        /\ out # NoImg
        /\ Seen(heap, out).data = ExpectedConverted(img0.data, args.in_type, args.out_type)

\* the field displacement_map_to_field is to return for map content d
ExpectedEmbedded(d, axis) ==
    LET shape == d.shape \o <<3>>
    IN  [shape |-> shape,
         val |-> [i \in Indices(shape) |->
                    IF i[Len(i)] = AXIS_MAP[axis] THEN d.val[SubSeq(i, 1, Len(i) - 1)] ELSE 0]]

\* C10: for every displacement map (3D, or 4D with one or more frames) and
\* every axis name, displacement_map_to_field returns a field with the map
\* at the component of the axis, zero elsewhere, and vector intent.
EmbedValues ==
    (pc = "embedded" /\ args.axis \in DOMAIN AXIS_MAP /\ args.format = "itk") =>
        /\ err = "none"
        /\ out # NoImg
        /\ out.intent = "vector"
        /\ Seen(heap, out).data = ExpectedEmbedded(img0.data, args.axis)

\* ------------------------------- field map <-> displacement map (4.3)

\* field map samples in Hz
FieldValues == {Rat(-3, 1), Rat(0, 1), Rat(1, 2), Rat(10, 1)}

\* total readout times in s: 0, 0.05 and 1.5
ReadoutTimes == {Rat(0, 1), Rat(1, 20), Rat(3, 2)}

\* header zooms in mm, some with an axis of voxel size 0
ZoomChoices ==
    {<<Rat(2, 1), Rat(2, 1), Rat(2, 1)>>, <<Rat(1, 1), Rat(2, 1), Rat(3, 1)>>,
     <<Rat(0, 1), Rat(2, 1), Rat(3, 1)>>, <<Rat(3, 1), Rat(0, 1), Rat(1, 1)>>,
     <<Rat(1, 2), Rat(2, 1), Rat(0, 1)>>}

\* the phase encoding directions a caller passes: the twelve codes and "q"
DirectionNames == DOMAIN AXIS_MAP \cup {"q"}

FieldInit ==
    /\ pc = "field"
    /\ \E d \in [1..MaxVox -> FieldValues], z \in ZoomChoices : img = [data |-> d, zooms |-> z]
    /\ img0 = img
    /\ heap = <<>>
    /\ args = Null /\ out = NoImg /\ back = NoImg /\ err = "none"
    /\ inv = Null

\* out = field_maps_to_displacement_maps(img, t, direction)
CallFieldToDisplacement ==
    /\ pc = "field"
    /\ \E t \in ReadoutTimes, direction \in DirectionNames :
         \E r \in {field_maps_to_displacement_maps(img, t, direction)} :
             /\ args' = [op |-> "field_maps_to_displacement_maps", t |-> t,
                         direction |-> direction, flip_sign |-> FALSE]
             /\ out' = r.out
             /\ err' = r.err
    /\ pc' = "displaced"
    /\ UNCHANGED <<heap, img, img0, back, inv>>

\* back = displacement_maps_to_field_maps(out, t, direction, flip_sign) with
\* the readout time and the direction of the first call
CallDisplacementBack ==
    /\ pc = "displaced"
    /\ err = "none"
    /\ \E flip_sign \in BOOLEAN :
         \E r \in {displacement_maps_to_field_maps(out, args.t, args.direction, flip_sign)} :
             /\ args' = [args EXCEPT !.flip_sign = flip_sign]
             /\ back' = r.out
             /\ err' = r.err
    /\ pc' = "restored"
    /\ UNCHANGED <<heap, img, img0, out, inv>>

\* out = displacement_maps_to_field_maps(img, t, direction, flip_sign)
CallDisplacementToField ==
    /\ pc = "field"
    /\ \E t \in ReadoutTimes, direction \in DirectionNames, flip_sign \in BOOLEAN :
         \E r \in {displacement_maps_to_field_maps(img, t, direction, flip_sign)} :
             /\ args' = [op |-> "displacement_maps_to_field_maps", t |-> t,
                         direction |-> direction, flip_sign |-> flip_sign]
             /\ out' = r.out
             /\ err' = r.err
    /\ pc' = "fielded"
    /\ UNCHANGED <<heap, img, img0, back, inv>>

FieldNext == CallFieldToDisplacement \/ CallDisplacementBack \/ CallDisplacementToField

FieldSpec == FieldInit /\ [][FieldNext]_vars

\* polarity * lps of a direction code, as the specification tabulates it: the
\* polarity is -1 with a trailing "-", lps is -1 on x/i and y/j
ScaleSign ==
    [d \in DOMAIN AXIS_MAP |->
        IF d \in {"x", "i", "y", "j", "z-", "k-"} THEN -1 ELSE 1]

\* the voxel size of the image on the axis a direction code names
ZoomOn(zooms, d) ==
    IF d \in {"x", "x-", "i", "i-"} THEN zooms[1]
    ELSE IF d \in {"y", "y-", "j", "j-"} THEN zooms[2]
    ELSE zooms[3]

\* C3: for every value v, readout time t, voxel size s and direction code,
\* field_maps_to_displacement_maps returns v * t * s * polarity * lps; 10 Hz
\* at 2 mm on j, direction "j-", 0.05 s gives 1.0 mm.
FieldToDisplacementScale ==
    (pc = "displaced" /\ args.direction \in DOMAIN AXIS_MAP) =>
        /\ err = "none"
        /\ out # NoImg
        /\ DOMAIN out.data = DOMAIN img0.data
        /\ \A k \in DOMAIN img0.data :
              LET scale == Times(Times(args.t, ZoomOn(img0.zooms, args.direction)),
                                 Rat(ScaleSign[args.direction], 1))
              IN  out.data[k] = Times(img0.data[k], scale)
        /\ (/\ args.direction = "j-" /\ args.t = Rat(1, 20) /\ img0.zooms[2] = Rat(2, 1))
              => \A k \in DOMAIN img0.data :
                    img0.data[k] = Rat(10, 1) => out.data[k] = Rat(1, 1)

\* the example of C3 was computed: 10 Hz, 2 mm on j, "j-", 0.05 s
FieldToDisplacementWitness ==
    /\ pc = "displaced"
    /\ args.direction = "j-"
    /\ args.t = Rat(1, 20)
    /\ img0.zooms[2] = Rat(2, 1)
    /\ \A k \in DOMAIN img0.data : img0.data[k] = Rat(10, 1)
    /\ \A k \in DOMAIN out.data : out.data[k] = Rat(1, 1)

ArithmeticErrors == {"ArithmeticError", "ZeroDivisionError", "FloatingPointError"}

\* C5: both conversions end in an arithmetic error, returning nothing,
\* whenever the readout time or the voxel size on the axis is 0, and in a
\* configuration error (the failed lookup of the direction) for "q".
ZeroScaleRaises ==
    pc \in {"displaced", "fielded"} =>
        /\ args.direction \notin DOMAIN AXIS_MAP => (err = "KeyError" /\ out = NoImg)
        /\ (/\ args.direction \in DOMAIN AXIS_MAP
            /\ (args.t = Rat(0, 1) \/ ZoomOn(img0.zooms, args.direction) = Rat(0, 1)))
              => (err \in ArithmeticErrors /\ out = NoImg)
        /\ out # NoImg => \A k \in DOMAIN out.data : IsFinite(out.data[k])

Negated(d) == [k \in DOMAIN d |-> Times(d[k], Rat(-1, 1))]

\* C9: for each direction code, nonzero readout time and nonzero voxel size,
\* displacement_maps_to_field_maps of field_maps_to_displacement_maps gives
\* the field map back with flip_sign false and its negation with flip_sign
\* true.
FieldRoundTrip ==
    (/\ pc = "restored"
     /\ args.t # Rat(0, 1)
     /\ ZoomOn(img0.zooms, args.direction) # Rat(0, 1)) =>
        /\ err = "none"
        /\ back # NoImg
        /\ back.data = IF args.flip_sign THEN Negated(img0.data) ELSE img0.data

\* a field map with different nonzero samples went there and back negated,
\* on an axis with the lps correction and negative polarity
FieldRoundTripWitness ==
    /\ pc = "restored"
    /\ args.flip_sign
    /\ args.direction = "i-"
    /\ args.t = Rat(3, 2)
    /\ img0.zooms[1] = Rat(1, 2)
    /\ img0.data[1] = Rat(-3, 1)
    /\ img0.data[2] = Rat(1, 2)
    /\ out.data # img0.data
    /\ back.data = Negated(img0.data)

\* --------------------------------------- displacement map inversion (4.6)

\* the spatial axes of the maps and fields the script inverts; the last axis
\* (frames of a map, components of a field) has MaxFrames + 1 down to 1 entries
InvSpatialShapes == {<<1, MaxDim, MaxDim>>, <<MaxDim, 1, 1>>}

\* the axis names the script passes
InvAxisNames == {"x", "j-", "z", "q"}

InvInit ==
    /\ pc = "invert"
    /\ \E s \in InvSpatialShapes, d \in 0..MaxFrames, o \in WarpOrientations :
         LET shape == s \o <<MaxFrames + 1 - d>>
         IN  /\ heap = <<Labelled(shape)>>
             /\ img = Image(Owner(1, shape), TRUE, AffineOf(o), "none")
    /\ img0 = Seen(heap, img)
    /\ args = Null /\ out = NoImg /\ back = NoImg /\ err = "none"
    /\ inv = Null

\* invert_displacement_maps up to the loop: the axis lookup, the
\* re-orientation to RAS, the decomposition of the affine, new_data
InvBegin ==
    /\ pc = "invert"
    /\ \E axis \in InvAxisNames :
         /\ args' = [op |-> "invert_displacement_maps", axis |-> axis]
         /\ IF axis \notin DOMAIN AXIS_MAP
            THEN /\ pc' = "done"
                 /\ err' = "KeyError"
                 /\ UNCHANGED <<heap, inv>>
            ELSE \E tr \in {get_ras_orient_transform(img.affine)} :
                 \E ras \in {as_reoriented(img, tr[1]).im} :
                     /\ pc' = "loop"
                     /\ err' = "none"
                     /\ heap' = Append(heap, Zeros(ras.dataobj.shape))
                     /\ inv' = [axis_code |-> AXIS_MAP[axis],
                                to_canonical |-> tr[1],
                                from_canonical |-> tr[2],
                                displacement_maps_ras |-> ras,
                                geometry |-> decompose44(ras.affine),
                                new_data |-> Owner(Len(heap) + 1, ras.dataobj.shape),
                                i |-> 0,
                                calls |-> <<>>]
    /\ UNCHANGED <<img, img0, out, back>>

\* the number of passes of the loop: data.shape[-1]
InvFrames == inv.new_data.shape[Len(inv.new_data.shape)]

\* the frame the loop hands to the kernel in pass i
InvKernelInput == Frame(Content(heap, inv.displacement_maps_ras.dataobj), inv.i)

\* one pass of the loop in which the kernel returns
InvFrame ==
    /\ pc = "loop"
    /\ inv.i < InvFrames
    /\ \E frame \in {InvKernelInput} :
       \E result \in KernelResults(frame) :
           /\ heap' = store_frame(heap, inv.new_data, inv.i, result)
           /\ inv' = [inv EXCEPT
                        !.i = inv.i + 1,
                        !.calls = Append(inv.calls,
                                         [i |-> inv.i, data |-> frame,
                                          geometry |-> inv.geometry,
                                          axis |-> inv.axis_code,
                                          result |-> result])]
    /\ UNCHANGED <<pc, img, img0, args, out, back, err>>

\* InvFrameRaises with the exception caught inside the loop: the frame is
\* left at zero and the loop goes on with the next frame
InvFrameRaisesCaught ==
    /\ pc = "loop"
    /\ inv.i < InvFrames
    /\ inv' = [inv EXCEPT
                 !.i = inv.i + 1,
                 !.calls = Append(inv.calls,
                                  [i |-> inv.i, data |-> InvKernelInput,
                                   geometry |-> inv.geometry,
                                   axis |-> inv.axis_code,
                                   result |-> Raised])]
    /\ UNCHANGED <<pc, heap, img, img0, args, out, back, err>>

\* one pass of the loop in which the kernel raises: the exception leaves
\* invert_displacement_maps
InvFrameRaises ==
    /\ pc = "loop"
    /\ inv.i < InvFrames
    /\ inv' = [inv EXCEPT
                 !.calls = Append(inv.calls,
                                  [i |-> inv.i, data |-> InvKernelInput,
                                   geometry |-> inv.geometry,
                                   axis |-> inv.axis_code,
                                   result |-> Raised])]
    /\ pc' = "done"
    /\ err' = "KernelError"
    /\ UNCHANGED <<heap, img, img0, args, out, back>>

\* after the loop: the new image, re-oriented to the orientation of the input
InvFinish ==
    /\ pc = "loop"
    /\ inv.i >= InvFrames
    /\ out' = as_reoriented(Nifti1Image(inv.new_data, inv.displacement_maps_ras.affine,
                                        inv.displacement_maps_ras.intent),
                            inv.from_canonical).im
    /\ pc' = "done"
    /\ UNCHANGED <<heap, img, img0, args, back, err, inv>>

\* what the native kernel invert_displacement_field returns for a field: an
\* array of the shape of the field; which one is the kernel's business
FieldKernelResults(field) ==
    {[shape |-> field.shape, val |-> [j \in DOMAIN field.val |-> g * field.val[j]]] :
        g \in {-1, 2}}

\* invert_displacement_field up to the kernel call: data = get_fdata() of the
\* image as it was passed, then the re-orientation to RAS and the
\* decomposition of the affine of the re-oriented image
InvFieldBegin ==
    /\ pc = "invert"
    /\ args' = [op |-> "invert_displacement_field"]
    /\ \E fdata \in {get_fdata(heap, img)} :
       \E tr \in {get_ras_orient_transform(fdata.im.affine)} :
       \E ras \in {as_reoriented(fdata.im, tr[1]).im} :
           /\ heap' = fdata.h
           /\ img' = fdata.im
           /\ inv' = [data |-> fdata.arr,
                      to_canonical |-> tr[1],
                      from_canonical |-> tr[2],
                      displacement_field_ras |-> ras,
                      geometry |-> decompose44(ras.affine),
                      calls |-> <<>>]
    /\ pc' = "field_call"
    /\ UNCHANGED <<img0, out, back, err>>

\* the kernel returns: the new image on what it returned, with the affine of
\* the re-oriented image, re-oriented with from_canonical
InvFieldKernel ==
    /\ pc = "field_call"
    /\ \E data \in {Content(heap, inv.data)} :
       \E result \in FieldKernelResults(data) :
           /\ heap' = Append(heap, result.val)
           /\ inv' = [inv EXCEPT
                        !.calls = Append(inv.calls,
                                         [i |-> 0, data |-> data,
                                          geometry |-> inv.geometry,
                                          result |-> result])]
           /\ out' = as_reoriented(Nifti1Image(Owner(Len(heap) + 1, result.shape),
                                               inv.displacement_field_ras.affine,
                                               inv.displacement_field_ras.intent),
                                   inv.from_canonical).im
    /\ pc' = "field_done"
    /\ UNCHANGED <<img, img0, args, back, err>>

\* the kernel raises: the exception leaves invert_displacement_field
InvFieldKernelRaises ==
    /\ pc = "field_call"
    /\ inv' = [inv EXCEPT
                 !.calls = Append(inv.calls,
                                  [i |-> 0, data |-> Content(heap, inv.data),
                                   geometry |-> inv.geometry,
                                   result |-> Raised])]
    /\ pc' = "field_done"
    /\ err' = "KernelError"
    /\ UNCHANGED <<heap, img, img0, args, out, back>>

InvNext ==
    \/ InvBegin \/ InvFrame \/ InvFrameRaises \/ InvFinish
    \/ InvFieldBegin \/ InvFieldKernel \/ InvFieldKernelRaises

InvSpec == InvInit /\ [][InvNext]_vars

\* C7: for an input of N frames, invert_displacement_maps calls the kernel
\* once for each frame index 0..N-1, on that frame of the input, and frame i
\* of the image it returns holds what the kernel returned for frame i.
InvFrameOrder ==
    /\ pc = "loop" =>
          /\ Len(inv.calls) = inv.i
          /\ \A k \in 1..Len(inv.calls) : inv.calls[k].i = k - 1
    /\ (pc = "done" /\ err = "none") =>
          LET N == img0.data.shape[Len(img0.data.shape)]
              in_ras == Content(heap, apply_orientation(img.dataobj, inv.to_canonical))
              out_ras == Content(heap, apply_orientation(out.dataobj, inv.to_canonical))
          IN  /\ Len(inv.calls) = N
              /\ out.dataobj.shape = img0.data.shape
              /\ \A k \in 1..N :
                    /\ inv.calls[k].i = k - 1
                    /\ inv.calls[k].data = Frame(in_ras, k - 1)
                    /\ Frame(out_ras, k - 1) = inv.calls[k].result

\* an image of two or more frames, not in RAS orientation, was inverted and
\* the kernel returned something different for the first two frames
InvFrameOrderWitness ==
    /\ pc = "done"
    /\ err = "none"
    /\ Len(inv.calls) >= 2
    /\ inv.to_canonical # identity_ornt
    /\ inv.calls[1].result # inv.calls[2].result
    /\ inv.calls[1].result.val # [j \in DOMAIN inv.calls[1].data.val |->
                                      -inv.calls[1].data.val[j]]
    /\ out # NoImg

\* C11: when the kernel fails on a frame of invert_displacement_maps, the
\* call ends in that kernel error: no image is returned, the failing call is
\* the last call to the kernel (the frame is not tried again and no later
\* frame is handed to the kernel), and the frames before it were each handed
\* to the kernel once, in order.
InvKernelFailure ==
    /\ (err = "KernelError" /\ pc # "field_done") =>
          /\ pc = "done"
          /\ out = NoImg
          /\ inv # Null
          /\ Len(inv.calls) >= 1
          /\ inv.calls[Len(inv.calls)].result = Raised
    /\ pc \in {"loop", "done"} /\ inv # Null =>
          \A k \in 1..Len(inv.calls) :
              /\ inv.calls[k].i = k - 1
              /\ inv.calls[k].result = Raised =>
                    /\ k = Len(inv.calls)
                    /\ pc = "done"
                    /\ err = "KernelError"
                    /\ out = NoImg

\* the kernel failed on the second of three frames, after it had returned
\* for the first: the call is over with two kernel calls and no image
InvKernelFailureWitness ==
    /\ pc = "done"
    /\ err = "KernelError"
    /\ inv # Null
    /\ InvFrames = 3
    /\ Len(inv.calls) = 2
    /\ inv.calls[1].result # Raised
    /\ inv.calls[2].result = Raised
    /\ out = NoImg

\* the input array and the input affine re-oriented to RAS
InputRAS ==
    LET to_canonical == get_ras_orient_transform(img0.affine)[1]
    IN  [data |-> Content(heap, apply_orientation(img.dataobj, to_canonical)),
         affine |-> Dot4(img0.affine, inv_ornt_aff(to_canonical, img0.data.shape))]

\* C13: in invert_displacement_maps and in invert_displacement_field, for
\* every input orientation, the array handed to the native kernel is the
\* input array re-oriented to RAS (frame i of it in the loop over the maps),
\* and the geometry handed with it is the decomposition of the affine of the
\* re-oriented image.
KernelDataCanonical ==
    (pc \in {"loop", "done", "field_call", "field_done"} /\ inv # Null) =>
        \A k \in 1..Len(inv.calls) :
            /\ inv.calls[k].geometry = decompose44(InputRAS.affine)
            /\ inv.calls[k].data =
                  IF pc \in {"loop", "done"}
                  THEN Frame(InputRAS.data, inv.calls[k].i)
                  ELSE InputRAS.data

\* ------------------------------------------------------ resampling (4.7)

\* the transform images the script passes: 3D, 4D and 5D arrays
TransformShapes ==
    {s \o rest : s \in {<<MaxDim, MaxDim, MaxDim>>, <<1, 1, 1>>}, rest \in TrailingAxes}
    \cup {<<MaxDim, MaxDim, MaxDim, 3, 1>>}

\* the reference and input images the script passes
GridOrientations == {<<(<<1, 2, 3>>), (<<1, 1, 1>>)>>, <<(<<2, 1, 3>>), (<<-1, 1, -1>>)>>}

\* check_transform_data without the test of the last axis
check_transform_data_absent(shape) == "none"

\* transform_data.shape[-1] != 3 (lines 359-360): the exception, "none" when
\* the check passes; the index -1 of an empty shape raises IndexError
check_transform_data(shape) ==
    IF Len(shape) = 0 THEN "IndexError: tuple index out of range"
    ELSE IF shape[Len(shape)] # 3
    THEN "ValueError: Transform data must have size 3 in last axis"
    ELSE "none"

\* what the native kernel resample returns: an array of the reference shape;
\* which one is the kernel's business
ResampleResults(ref_shape) ==
    {[shape |-> ref_shape, val |-> [j \in Indices(ref_shape) |-> v]] : v \in {0, 5}}

ResInit ==
    /\ pc = "resample"
    /\ \E shape \in TransformShapes, o \in WarpOrientations,
          ro \in GridOrientations, io \in GridOrientations :
         /\ heap = <<Labelled(<<1, 1, MaxDim>>), Labelled(<<1, MaxDim, 1>>), Labelled(shape)>>
         /\ img = [reference_image |-> Image(Owner(1, <<1, 1, MaxDim>>), TRUE, AffineOf(ro), "none"),
                   input_image |-> Image(Owner(2, <<1, MaxDim, 1>>), TRUE, AffineOf(io), "none"),
                   transform |-> Image(Owner(3, shape), TRUE, AffineOf(o), "none")]
    /\ img0 = [reference_image |-> Seen(heap, img.reference_image),
               input_image |-> Seen(heap, img.input_image),
               transform |-> Seen(heap, img.transform)]
    /\ args = Null /\ out = NoImg /\ back = NoImg /\ err = "none"
    /\ inv = Null

\* resample_image up to the check of the transform (lines 339-356): the three
\* re-orientations to RAS, the data of the input and of the transform, the
\* squeeze of a 5D transform
ResBegin ==
    /\ pc = "resample"
    /\ args' = [op |-> "resample_image"]
    /\ \E ref \in {get_ras_orient_transform(img.reference_image.affine)} :
       \E reference_image_ras \in {as_reoriented(img.reference_image, ref[1])} :
       \E input_image_ras \in {as_reoriented(img.input_image,
                                   get_ras_orient_transform(img.input_image.affine)[1])} :
       \E transform_ras \in {as_reoriented(img.transform,
                                   get_ras_orient_transform(img.transform.affine)[1])} :
       \E input_data \in {get_fdata(heap, input_image_ras.im)} :
       \E transform_data \in {get_fdata(input_data.h, transform_ras.im)} :
           /\ heap' = transform_data.h
           /\ img' = [img EXCEPT
                        !.input_image = IF input_image_ras.self THEN input_data.im ELSE @,
                        !.transform = IF transform_ras.self THEN transform_data.im ELSE @]
           /\ inv' = [reference_image_ras |-> reference_image_ras.im,
                      ref_from_canonical |-> ref[2],
                      input_image_ras |-> input_data.im,
                      transform_ras |-> transform_data.im,
                      ref_shape |-> reference_image_ras.im.dataobj.shape,
                      input_data |-> input_data.arr,
                      transform_data |-> IF Len(transform_data.arr.shape) = 5
                                         THEN squeeze(transform_data.arr)
                                         ELSE transform_data.arr,
                      calls |-> <<>>]
    /\ pc' = "res_check"
    /\ UNCHANGED <<img0, out, back, err>>

\* the check of the last axis of the transform (lines 358-360)
ResCheck ==
    /\ pc = "res_check"
    /\ \E e \in {check_transform_data(inv.transform_data.shape)} :
         /\ err' = e
         /\ pc' = IF e = "none" THEN "res_call" ELSE "res_done"
    /\ UNCHANGED <<heap, img, img0, args, out, back, inv>>

\* what resample_image hands to the kernel (lines 362-381)
ResKernelCall ==
    [input_data |-> Content(heap, inv.input_data),
     in_geometry |-> decompose44(inv.input_image_ras.affine),
     ref_shape |-> inv.ref_shape,
     ref_geometry |-> decompose44(inv.reference_image_ras.affine),
     transform_data |-> Content(heap, inv.transform_data),
     tr_geometry |-> decompose44(inv.transform_ras.affine)]

\* the kernel returns: the new image on what it returned, with the affine of
\* the re-oriented reference, re-oriented with ref_from_canonical
ResKernel ==
    /\ pc = "res_call"
    /\ \E result \in ResampleResults(inv.ref_shape) :
         /\ heap' = Append(heap, result.val)
         /\ inv' = [inv EXCEPT
                      !.calls = Append(inv.calls, [call |-> ResKernelCall, result |-> result])]
         /\ out' = as_reoriented(Nifti1Image(Owner(Len(heap) + 1, result.shape),
                                             inv.reference_image_ras.affine,
                                             inv.reference_image_ras.intent),
                                 inv.ref_from_canonical).im
    /\ pc' = "res_done"
    /\ UNCHANGED <<img, img0, args, back, err>>

\* the kernel raises: the exception leaves resample_image
ResKernelRaises ==
    /\ pc = "res_call"
    /\ inv' = [inv EXCEPT
                 !.calls = Append(inv.calls, [call |-> ResKernelCall, result |-> Raised])]
    /\ pc' = "res_done"
    /\ err' = "KernelError"
    /\ UNCHANGED <<heap, img, img0, args, out, back>>

ResNext == ResBegin \/ ResCheck \/ ResKernel \/ ResKernelRaises

\* the two functions around a native kernel that validate an argument
KernelInit == InvInit \/ ResInit

KernelNext == ResNext \/ InvBegin \/ InvFrame \/ InvFrameRaises \/ InvFinish

KernelSpec == KernelInit /\ [][KernelNext]_vars

\* the number of times the running call has invoked a native kernel
KernelCalls == IF inv = Null THEN 0 ELSE Len(inv.calls)

\* the shape of a transform as resample_image checks it: a 5D array squeezed
Squeezed(shape) ==
    IF Len(shape) = 5 THEN SelectSeq(shape, LAMBDA d : d # 1) ELSE shape

\* the transform passed to resample_image does not have size 3 in its last
\* axis
BadTransform == LET s == Squeezed(img0.transform.data.shape)
                IN  Len(s) = 0 \/ s[Len(s)] # 3

MaxEchoes == 2

\* the phase and magnitude files are 2D to 5D: for each axis, how far its
\* size is below MaxDim
UnwrapShapes == UNION {[1..r -> 0..(MaxDim - 1)] : r \in 2..5}

\* img.slicer[..., :-n] on the array: the last axis without its last n entries
SliceLast(a, n) ==
    LET shape == [a.shape EXCEPT ![Len(a.shape)] = @ - n]
    IN  [buf |-> a.buf, shape |-> shape, at |-> [i \in Indices(shape) |-> a.at[i]]]

\* arr[..., np.newaxis]: a view with a new axis of size 1 at the end
NewAxisLast(a) ==
    LET shape == Append(a.shape, 1)
    IN  [buf |-> a.buf, shape |-> shape,
         at |-> [i \in Indices(shape) |-> a.at[SubSeq(i, 1, Len(a.shape))]]]

\* [nib.Nifti1Image(p.get_fdata()[..., np.newaxis], p.affine, p.header) for p
\* in imgs], from image k on: [h, imgs]
RECURSIVE promote(_, _, _)
promote(h, imgs, k) ==
    IF k > Len(imgs) THEN [h |-> h, imgs |-> imgs]
    ELSE LET fdata == get_fdata(h, imgs[k])
         IN  promote(fdata.h,
                     [imgs EXCEPT ![k] = Nifti1Image(NewAxisLast(fdata.arr),
                                                     imgs[k].affine, imgs[k].intent)],
                     k + 1)

\* the files nib.load returns: one phase and one magnitude image per echo,
\* array proxies (get_fdata reads a new float array)
UnwrapInit ==
    /\ pc = "unwrap"
    /\ \E c \in UnwrapShapes, d \in 0..(MaxEchoes - 1), noiseframes \in 0..1 :
         LET n == MaxEchoes - d
             shape == [k \in DOMAIN c |-> MaxDim - c[k]]
             loaded(b) == Image(Owner(b, shape), FALSE, AffineOf(<<(<<1, 2, 3>>), (<<1, 1, 1>>)>>), "none")
         IN  /\ heap = [b \in 1..(2 * n) |-> Labelled(shape)]
             /\ img = [phase_imgs |-> [k \in 1..n |-> loaded(k)],
                       magnitude_imgs |-> [k \in 1..n |-> loaded(n + k)]]
             /\ args = [op |-> "unwrap_phases", noiseframes |-> noiseframes]
    /\ img0 = [phase |-> [k \in DOMAIN img.phase_imgs |-> Seen(heap, img.phase_imgs[k])],
               magnitude |-> [k \in DOMAIN img.magnitude_imgs |-> Seen(heap, img.magnitude_imgs[k])]]
    /\ out = NoImg /\ back = NoImg /\ err = "none"
    /\ inv = Null

\* lines 149-153: the noise frames are cut off the end of the last axis; the
\* slicer raises IndexError for an empty slice
UnwrapTrim ==
    /\ pc = "unwrap"
    /\ LET n == args.noiseframes
           trimmed(imgs) == [k \in DOMAIN imgs |->
                               [imgs[k] EXCEPT !.dataobj = SliceLast(@, n)]]
           last == img.phase_imgs[1].dataobj.shape[Len(img.phase_imgs[1].dataobj.shape)]
       IN  IF n > 0 /\ last - n <= 0
           THEN /\ pc' = "unwrap_done"
                /\ err' = "IndexError: Empty slice requested"
                /\ UNCHANGED inv
           ELSE /\ pc' = "unwrap_check"
                /\ inv' = IF n > 0
                          THEN [phase_imgs |-> trimmed(img.phase_imgs),
                                magnitude_imgs |-> trimmed(img.magnitude_imgs)]
                          ELSE [phase_imgs |-> img.phase_imgs,
                                magnitude_imgs |-> img.magnitude_imgs]
                /\ UNCHANGED err
    /\ UNCHANGED <<heap, img, img0, args, out, back>>

\* lines 155-165: if phase_imgs[0].ndim == 3 the images are rebuilt with a
\* new last axis, else ValueError is raised
UnwrapCheck ==
    /\ pc = "unwrap_check"
    /\ IF Len(inv.phase_imgs[1].dataobj.shape) = 3
       THEN \E p \in {promote(heap, inv.phase_imgs, 1)} :
            \E m \in {promote(p.h, inv.magnitude_imgs, 1)} :
                /\ heap' = m.h
                /\ inv' = [phase_imgs |-> p.imgs, magnitude_imgs |-> m.imgs]
                /\ pc' = "unwrap_metadata"
                /\ UNCHANGED err
       ELSE /\ pc' = "unwrap_done"
            /\ err' = "ValueError: Data must be 3D or 4D."
            /\ UNCHANGED <<heap, inv>>
    /\ UNCHANGED <<img, img0, args, out, back>>

UnwrapNext == UnwrapTrim \/ UnwrapCheck

UnwrapSpec == UnwrapInit /\ [][UnwrapNext]_vars

\* the rank of the data unwrap_phases was given
UnwrapRank == Len(img0.phase[1].data.shape)

\* C14: unwrap_phases accepts data that is 3D or 4D: after the rank check 3D
\* images are 4D images of one frame with the same samples, 4D images are
\* what they were before the check, and the error 'Data must be 3D or 4D.'
\* is raised for data of another rank and for no other.
UnwrapRankCheck ==
    /\ pc = "unwrap_metadata" =>
          /\ UnwrapRank \in {3, 4}
          /\ \A k \in DOMAIN inv.phase_imgs :
                LET before == img0.phase[k].data
                    after == Content(heap, inv.phase_imgs[k].dataobj)
                IN  /\ Len(after.shape) = 4
                    /\ UnwrapRank = 3 => after.shape[4] = 1
                    /\ \A i \in DOMAIN after.val :
                          after.val[i] = before.val[SubSeq(i, 1, Len(before.shape))]
    /\ (pc = "unwrap_done" /\ err = "ValueError: Data must be 3D or 4D.") =>
          UnwrapRank \notin {3, 4}
    /\ (pc = "unwrap_done" /\ UnwrapRank \notin {3, 4}) =>
          err \in {"ValueError: Data must be 3D or 4D.", "IndexError: Empty slice requested"}

\* ------------------------------------------------------------ all scripts

Init == OrientInit \/ WarpInit \/ FieldInit \/ InvInit \/ ResInit \/ UnwrapInit

Next == OrientNext \/ WarpNext \/ FieldNext \/ InvNext \/ ResNext \/ UnwrapNext

Spec == Init /\ [][Next]_vars

====
